---------------------------- MODULE Spec2Model ----------------------------
(***************************************************************************)
(* A model of src/combined.py: a Streamlit script that OCRs an invoice     *)
(* PDF, asks a chat model for the invoice fields, shows an editable form   *)
(* and posts the invoice to Oracle Fusion.                                 *)
(*                                                                         *)
(* Streamlit re-executes the whole script on every user interaction, so    *)
(* every action below is one complete run of the script, top to bottom:    *)
(* stage 1 (OCR), the stage 2 gate and extraction, the stage 3 form and    *)
(* the stage 4 submit handler.  A button returns True only in the run its  *)
(* click started.  st.session_state and the widgets' values survive from   *)
(* run to run; the rest of what a run computes is what the page shows.     *)
(*                                                                         *)
(* Representation.  Python str values that the code parses or joins are    *)
(* sequences of one-character strings (Chars("12.5") is written            *)
(* <<"1","2",".","5">>); opaque text is a TLA+ string.  A float is an      *)
(* integer number of units of 1e-7, so that the 1e-6 tolerance of the      *)
(* amount check is 10 units; float rounding error is not modelled.         *)
(* None is the one-token sequence <<"None">>.  A dict read with .get() is  *)
(* a record whose missing keys hold Absent.                                *)
(***************************************************************************)
EXTENDS Integers, Sequences, FiniteSets, TLC

\* ------------------------------------------------------------------ bounds

\* Most pages an OCR response carries.
MaxPages == 2

\* Most line_items a candidate carries (one more than the form's maximum).
MaxItems == 11

\* ------------------------------------------------------- program constants

\* 1e-6, the tolerance of the amount check, in units of 1e-7.
Tolerance == 10

\* 1.0 in units: 1e-6 * 1e6.
UnitsPerOne == Tolerance * 1000000

\* min_value=0.01 of the amount widgets.
MinAmount == UnitsPerOne \div 100

\* min_value=1 and max_value=10 of "Number of Lines".
MinNumLines == 1

MaxNumLines == 10

\* ----------------------------------------------------------- python values

None == <<"None">>

Absent == [k |-> "absent", v |-> <<>>, n |-> 0]

\* A JSON string that the code parses (a sequence of characters).
Str(s) == [k |-> "str", v |-> s, n |-> 0]

\* A JSON number, in units.
Num(x) == [k |-> "num", v |-> <<>>, n |-> x]

\* d.get(key, default)
Get(d, key, default) == IF d[key] = Absent THEN default ELSE d[key]

Digits == {"0", "1", "2", "3", "4", "5", "6", "7", "8", "9"}

DigitVal(c) ==
    CASE c = "0" -> 0 [] c = "1" -> 1 [] c = "2" -> 2 [] c = "3" -> 3
      [] c = "4" -> 4 [] c = "5" -> 5 [] c = "6" -> 6 [] c = "7" -> 7
      [] c = "8" -> 8 [] c = "9" -> 9

DigitChar(n) ==
    CASE n = 0 -> "0" [] n = 1 -> "1" [] n = 2 -> "2" [] n = 3 -> "3"
      [] n = 4 -> "4" [] n = 5 -> "5" [] n = 6 -> "6" [] n = 7 -> "7"
      [] n = 8 -> "8" [] n = 9 -> "9"

AllDigits(s) == \A i \in DOMAIN s : s[i] \in Digits

RECURSIVE DigitsToNat(_)
DigitsToNat(s) ==
    IF s = <<>> THEN 0
    ELSE 10 * DigitsToNat(SubSeq(s, 1, Len(s) - 1)) + DigitVal(s[Len(s)])

RECURSIVE Pow10(_)
Pow10(n) == IF n = 0 THEN 1 ELSE 10 * Pow10(n - 1)

\* The number of decimal digits one unit resolves (1e-7).
FracDigits == 7

(***************************************************************************)
(* float(x) of Python, for the values a JSON reply can hold: a number is   *)
(* itself; a string is parsed as [-]digits[.digits] and anything else      *)
(* raises ValueError (a thousands separator, a currency sign, the empty    *)
(* string).  ok = FALSE stands for the raised exception.                   *)
(***************************************************************************)
NotAFloat == [ok |-> FALSE, val |-> 0]

\* The units of the fraction digits fp (those beyond 1e-7 are dropped).
FracUnits(fp) ==
    IF Len(fp) >= FracDigits THEN DigitsToNat(SubSeq(fp, 1, FracDigits))
    ELSE DigitsToNat(fp) * Pow10(FracDigits - Len(fp))

\* The integer digits ip and the fraction digits fp of an unsigned literal.
FloatOfParts(ip, fp) ==
    IF AllDigits(ip) /\ AllDigits(fp) /\ Len(ip) + Len(fp) > 0
    THEN [ok |-> TRUE, val |-> DigitsToNat(ip) * UnitsPerOne + FracUnits(fp)]
    ELSE NotAFloat

DotsIn(body) == {i \in DOMAIN body : body[i] = "."}

FloatAt(body, dot) ==
    FloatOfParts(SubSeq(body, 1, dot - 1), SubSeq(body, dot + 1, Len(body)))

FloatOfUnsigned(body) ==
    IF Cardinality(DotsIn(body)) > 1 THEN NotAFloat
    ELSE IF DotsIn(body) = {} THEN FloatOfParts(body, <<>>)
    ELSE FloatAt(body, CHOOSE i \in DotsIn(body) : TRUE)

Negated(r) == [ok |-> r.ok, val |-> 0 - r.val]

FloatOfStr(s) ==
    IF Len(s) > 0 /\ s[1] = "-" THEN Negated(FloatOfUnsigned(Tail(s)))
    ELSE FloatOfUnsigned(s)

float(x) ==
    CASE x.k = "num" -> [ok |-> TRUE, val |-> x.n]
      [] x.k = "str" -> FloatOfStr(x.v)
      [] OTHER       -> [ok |-> FALSE, val |-> 0]

\* ------------------------------------------------------------------- dates

IsLeap(y) == (y % 4 = 0 /\ y % 100 # 0) \/ y % 400 = 0

DaysInMonth(y, m) ==
    IF m = 2 THEN (IF IsLeap(y) THEN 29 ELSE 28)
    ELSE IF m \in {4, 6, 9, 11} THEN 30 ELSE 31

(***************************************************************************)
(* datetime.strptime(s, "%Y-%m-%d").date(): exactly four year digits, one  *)
(* or two month digits, one or two day digits, separated by "-", and the   *)
(* result a date of the calendar; anything else raises ValueError          *)
(* (ok = FALSE).                                                           *)
(***************************************************************************)
NotADate == [ok |-> FALSE, date |-> [y |-> 0, m |-> 0, d |-> 0]]

DateOf(y, m, d) ==
    IF y >= 1 /\ m \in 1..12 /\ d >= 1 /\ d <= DaysInMonth(y, m)
    THEN [ok |-> TRUE, date |-> [y |-> y, m |-> m, d |-> d]]
    ELSE NotADate

DateOfParts(ys, ms, ds) ==
    IF /\ AllDigits(ys) /\ AllDigits(ms) /\ AllDigits(ds)
       /\ Len(ys) = 4 /\ Len(ms) \in {1, 2} /\ Len(ds) \in {1, 2}
    THEN DateOf(DigitsToNat(ys), DigitsToNat(ms), DigitsToNat(ds))
    ELSE NotADate

DashesIn(s) == {i \in DOMAIN s : s[i] = "-"}

StrptimeAt(s, d1, d2) ==
    DateOfParts(SubSeq(s, 1, d1 - 1), SubSeq(s, d1 + 1, d2 - 1),
                SubSeq(s, d2 + 1, Len(s)))

strptime(s) ==
    IF Cardinality(DashesIn(s)) = 2
    THEN StrptimeAt(s, CHOOSE i \in DashesIn(s) : \A j \in DashesIn(s) : i <= j,
                       CHOOSE i \in DashesIn(s) : \A j \in DashesIn(s) : i >= j)
    ELSE NotADate

Pad2(n) == <<DigitChar(n \div 10), DigitChar(n % 10)>>

\* date.strftime("%Y-%m-%d"), for years of four digits.
strftime(date) ==
    Pad2(date.y \div 100) \o Pad2(date.y % 100) \o <<"-">>
        \o Pad2(date.m) \o <<"-">> \o Pad2(date.d)

\* ------------------------------------------------------------ python helpers

\* A JSON array.
List(items) == [k |-> "list", v |-> items, n |-> 0]

\* bool(x) of a JSON value: a missing key never gets here (get() gives the default).
Truthy(x) ==
    CASE x.k = "num" -> x.n # 0
      [] OTHER       -> x.v # <<>>

\* sep.join(parts), the parts and the separator being strings.
RECURSIVE Join(_, _)
Join(sep, parts) ==
    IF parts = <<>> THEN <<>>
    ELSE IF Len(parts) = 1 THEN parts[1]
    ELSE parts[1] \o sep \o Join(sep, Tail(parts))

RECURSIVE Sum(_)
Sum(nums) == IF nums = <<>> THEN 0 ELSE nums[1] + Sum(Tail(nums))

Abs(x) == IF x < 0 THEN 0 - x ELSE x

\* The sequences over S of length 0..n.
SeqsUpTo(S, n) == UNION {[1..m -> S] : m \in 0..n}

\* ---------------------------------------------------------- stage 1: the OCR

\* A page of the OCR response; a page without a markdown attribute makes
\* the join raise AttributeError.
GoodPage == [has_markdown |-> TRUE, markdown |-> <<"INVOICE">>]

BadPage == [has_markdown |-> FALSE, markdown |-> <<>>]

(***************************************************************************)
(* What client.ocr.process can do: raise (transport or service error), or  *)
(* return an object with .pages, a list of pages, or something else.       *)
(***************************************************************************)
OcrResponses ==
    {[k |-> "raise", pages |-> <<>>], [k |-> "other", pages |-> <<>>]}
      \cup {[k |-> kind, pages |-> ps] :
              kind \in {"object", "list"},
              ps \in SeqsUpTo({GoodPage, BadPage}, MaxPages)}

\* The pages the code reduces: .pages, the list itself, or [].
PagesOf(ocr_response) ==
    IF ocr_response.k \in {"object", "list"} THEN ocr_response.pages ELSE <<>>

\* "\n\n".join(page.markdown for page in pages); ok = FALSE is the
\* AttributeError of a page that has no markdown.
ResultText(pages) ==
    [ok  |-> \A i \in DOMAIN pages : pages[i].has_markdown,
     val |-> Join(<<"\n\n">>, [i \in DOMAIN pages |-> pages[i].markdown])]

\* --------------------------------------------------- stage 2: the extraction

\* The keys the script reads from extracted_data.
Keys ==
    {"supplier_name", "invoice_number", "invoice_amount", "invoice_date",
     "currency", "description", "line_items"}

\* {}: the extracted_data of a new session, and the JSON object "{}".
EmptyDict == [key \in Keys |-> Absent]

\* bool(d) of a dict: it has a key.
DictTruthy(d) == \E key \in Keys : d[key] # Absent

Item(description, amount) == [description |-> Str(<<description>>), amount |-> amount]

\* The i-th line item of a generated candidate: 0.30, 0.40, 0.50, ...
\* (TLC's integers are 32 bits wide: the amounts stay below 214.)
ItemNo(i) == Item("item", Num((2 + i) * (UnitsPerOne \div 10)))

Items(n) == [i \in 1..n |-> ItemNo(i)]

ItemsTotal(n) == Sum([i \in 1..n |-> ItemNo(i).amount.n])

\* A well-formed candidate: two lines, 0.30 + 0.40 = 0.70.
BaseCandidate ==
    [supplier_name  |-> Str(<<"ACME">>),
     invoice_number |-> Str(<<"INV-1">>),
     invoice_amount |-> Num(ItemsTotal(2)),
     invoice_date   |-> Str(<<"2", "0", "2", "4", "-", "0", "2", "-", "1", "3">>),
     currency       |-> Str(<<"EUR">>),
     description    |-> Str(<<"Consulting">>),
     line_items     |-> List(Items(2))]

(***************************************************************************)
(* The JSON objects the chat model's reply can carry, by name.  The model  *)
(* output is untrusted: amounts arrive as numbers or as strings, dates in  *)
(* any format, keys may be missing, line_items may be long.                *)
(***************************************************************************)
CandidateNames ==
    {"base", "amount_str", "amount_missing", "amount_comma",
     "date_missing", "date_dmy", "date_short", "date_feb30",
     "lines_missing", "lines_one", "lines_max", "lines_over",
     "line_amount_str", "line_amount_bad", "line_amount_missing",
     "header_missing"}

CandidateOf(name) ==
    CASE name = "base" -> BaseCandidate
      [] name = "amount_str" ->
           [BaseCandidate EXCEPT !.invoice_amount = Str(<<"0", ".", "7", "0">>)]
      [] name = "amount_missing" ->
           [BaseCandidate EXCEPT !.invoice_amount = Absent]
      [] name = "amount_comma" ->
           [BaseCandidate EXCEPT
              !.invoice_amount = Str(<<"1", ",", "2", "0", "0", ".", "0", "0">>)]
      [] name = "date_missing" ->
           [BaseCandidate EXCEPT !.invoice_date = Absent]
      [] name = "date_dmy" ->
           [BaseCandidate EXCEPT
              !.invoice_date = Str(<<"1", "3", "/", "0", "2", "/", "2", "0", "2", "4">>)]
      [] name = "date_short" ->
           [BaseCandidate EXCEPT
              !.invoice_date = Str(<<"2", "0", "2", "4", "-", "2", "-", "3">>)]
      [] name = "date_feb30" ->
           [BaseCandidate EXCEPT
              !.invoice_date = Str(<<"2", "0", "2", "4", "-", "0", "2", "-", "3", "0">>)]
      [] name = "lines_missing" ->
           [BaseCandidate EXCEPT !.line_items = Absent]
      [] name = "lines_one" ->
           [BaseCandidate EXCEPT !.line_items = List(Items(1)),
                                 !.invoice_amount = Num(ItemsTotal(1))]
      [] name = "lines_max" ->
           [BaseCandidate EXCEPT !.line_items = List(Items(MaxNumLines)),
                                 !.invoice_amount = Num(ItemsTotal(MaxNumLines))]
      [] name = "lines_over" ->
           [BaseCandidate EXCEPT !.line_items = List(Items(MaxItems)),
                                 !.invoice_amount = Num(ItemsTotal(MaxItems))]
      [] name = "line_amount_str" ->
           [BaseCandidate EXCEPT
              !.line_items = List(<<ItemNo(1), Item("fee", Str(<<".", "4", "5">>))>>)]
      [] name = "line_amount_bad" ->
           [BaseCandidate EXCEPT
              !.line_items = List(<<ItemNo(1), Item("fee", Str(<<"n", "/", "a">>))>>)]
      [] name = "line_amount_missing" ->
           [BaseCandidate EXCEPT
              !.line_items = List(<<ItemNo(1), Item("fee", Absent)>>)]
      [] name = "header_missing" ->
           [BaseCandidate EXCEPT !.supplier_name = Absent,
                                 !.invoice_number = Absent,
                                 !.currency = Absent,
                                 !.description = Absent]

(***************************************************************************)
(* What client.chat.complete can do: raise, or return a reply whose        *)
(* content is a sequence of tokens: "{", "}", the name of a candidate      *)
(* (standing for the text of its members) or other text.                   *)
(***************************************************************************)
ChatReplies ==
    {[k |-> "raise", content |-> <<>>]}
      \cup {[k |-> "content", content |-> <<"{", c, "}">>] : c \in CandidateNames}
      \cup {[k |-> "content", content |-> c] :
              c \in {<<>>,
                     <<"sorry">>,
                     <<"}", "no", "{">>,
                     <<"{", "base">>,
                     <<"{", "}">>,
                     <<"here", "{", "base", "}", "done">>,
                     <<"{", "base", "}", "or", "{", "date_dmy", "}">>,
                     <<"{", "sorry", "}">>}}

(***************************************************************************)
(* re.search(r'\{.*\}', text, re.DOTALL): the leftmost "{" that a "}"      *)
(* follows, up to the last "}" of the text (greedy).  found = FALSE is the *)
(* None of no match.                                                       *)
(***************************************************************************)
re_search(text) ==
    LET opens  == {i \in DOMAIN text : text[i] = "{"}
        first  == CHOOSE i \in opens : \A j \in opens : i <= j
        closes == {i \in DOMAIN text : text[i] = "}" /\ i > first}
        last   == CHOOSE i \in closes : \A j \in closes : i >= j
    IN  IF opens # {} /\ closes # {}
        THEN [found |-> TRUE, group |-> SubSeq(text, first, last)]
        ELSE [found |-> FALSE, group |-> <<>>]

\* json.loads(span) of a span that starts with "{" and ends with "}":
\* an object, or JSONDecodeError (ok = FALSE).
json_loads(span) ==
    IF span = <<"{", "}">> THEN [ok |-> TRUE, val |-> EmptyDict]
    ELSE IF Len(span) = 3 /\ span[2] \in CandidateNames
         THEN [ok |-> TRUE, val |-> CandidateOf(span[2])]
         ELSE [ok |-> FALSE, val |-> EmptyDict]

\* ------------------------------------------------------- stage 3: the form

(***************************************************************************)
(* The widgets' values as the framework keeps them between runs.  A text   *)
(* is a string (a sequence); a widget that takes its default from          *)
(* extracted_data holds <<>> until it has been rendered and <<value>>      *)
(* after; dist_comb[i] is the widget keyed dist_{i-1}.                     *)
(***************************************************************************)
SidebarInit ==
    [auth_method |-> "Basic Auth", username |-> <<>>, password |-> <<>>,
     access_token |-> <<>>, fusion_url |-> <<>>]

FormWidgetsInit ==
    [business_unit    |-> <<>>,
     supplier_name    |-> <<>>,
     supplier_site    |-> <<>>,
     invoice_number   |-> <<>>,
     invoice_amount   |-> <<>>,
     invoice_currency |-> <<>>,
     invoice_group    |-> <<>>,
     num_lines        |-> <<>>,
     dist_comb        |-> [i \in 1..MaxNumLines |-> <<>>]]

\* A widget's value: the one it holds, or its default on its first run.
ValueOf(held, default) == IF held = <<>> THEN default ELSE held[1]

(***************************************************************************)
(* st.number_input(value=default, min_value=lo, max_value=hi): the         *)
(* framework raises StreamlitAPIException when the default lies outside    *)
(* [lo, hi] (it does not clamp it); otherwise the widget's value is the    *)
(* one the user entered, which the widget keeps within [lo, hi].           *)
(* has_max = FALSE is a call without max_value.                            *)
(***************************************************************************)
number_input(held, default, lo, has_max, hi) ==
    IF default < lo \/ (has_max /\ default > hi)
    THEN [ok |-> FALSE, val |-> default]
    ELSE [ok |-> TRUE, val |-> ValueOf(held, default)]

\* The amount widgets: min_value=0.01, step=0.01, no max_value.
amount_input(held, default) == number_input(held, default, MinAmount, FALSE, 0)

\* Lines 192-201: the candidate's date when strptime parses it; today when
\* it is missing or empty, and when the try raises (the bare except).
DateFromParse(parsed, today) == IF parsed.ok THEN parsed.date ELSE today

DateDefault(d, today) ==
    IF Truthy(Get(d, "invoice_date", Str(<<>>)))
    THEN IF Get(d, "invoice_date", Str(<<>>)).k = "str"
         THEN DateFromParse(strptime(Get(d, "invoice_date", Str(<<>>)).v), today)
         ELSE today
    ELSE today

\* extracted_lines: the candidate's line_items, or one synthetic line.
ExtractedLines(d, invoice_amount) ==
    IF Truthy(Get(d, "line_items", List(<<>>)))
    THEN Get(d, "line_items", List(<<>>)).v
    ELSE <<[description |-> Str(<<"Service">>), amount |-> Num(invoice_amount)]>>

\* float(...) as the default of a row, with the exception it raises.
DefaultFromFloat(f) == [ok |-> f.ok, val |-> f.val, error |-> "ValueError"]

\* The default of "Amount i *": float(extracted_lines[i]["amount"]) for a
\* candidate line (KeyError when it has no amount), 0.0 beyond them.
LineDefault(extracted_lines, i) ==
    IF i <= Len(extracted_lines)
    THEN IF extracted_lines[i].amount = Absent
         THEN [ok |-> FALSE, val |-> 0, error |-> "KeyError"]
         ELSE DefaultFromFloat(float(extracted_lines[i].amount))
    ELSE [ok |-> TRUE, val |-> 0, error |-> ""]

\* Row i of the loop from its default: what it raises ("" when it renders)
\* and the amount its widget shows.
RowFromDefault(default) ==
    [error  |-> IF ~default.ok THEN default.error
                ELSE IF ~amount_input(<<>>, default.val).ok
                     THEN "StreamlitAPIException" ELSE "",
     amount |-> default.val]

Row(extracted_lines, i) == RowFromDefault(LineDefault(extracted_lines, i))

NoForm == <<>>

(***************************************************************************)
(* What the framework holds for the form's widgets after a run that got to *)
(* depth: the value of every widget the run rendered, and nothing for one  *)
(* it did not reach.  depth 0: the run ended at the invoice amount, 1: at  *)
(* the number of lines, 2: at row rows + 1, 3: it rendered every row and   *)
(* the submit button.                                                      *)
(***************************************************************************)
WidgetsAfter(d, w, depth, invoice_amount, num_lines, rows) ==
    [business_unit    |-> w.business_unit,
     supplier_name    |-> <<ValueOf(w.supplier_name,
                                    Get(d, "supplier_name", Str(<<>>)).v)>>,
     supplier_site    |-> w.supplier_site,
     invoice_number   |-> <<ValueOf(w.invoice_number,
                                    Get(d, "invoice_number", Str(<<>>)).v)>>,
     invoice_amount   |-> IF depth >= 1 THEN <<invoice_amount>> ELSE <<>>,
     invoice_currency |-> IF depth >= 1
                          THEN <<ValueOf(w.invoice_currency,
                                         Get(d, "currency", Str(<<"USD">>)).v)>>
                          ELSE <<>>,
     invoice_group    |-> IF depth >= 1 THEN w.invoice_group ELSE <<>>,
     num_lines        |-> IF depth >= 2 THEN <<num_lines>> ELSE <<>>,
     dist_comb        |-> [i \in 1..MaxNumLines |->
                             IF i <= rows THEN w.dist_comb[i] ELSE <<>>]]

\* A run that an uncaught exception ended: the page shows the exception in
\* place of the rest of the form.
Raised(exception, d, w, depth, invoice_amount, num_lines, rows) ==
    [exception |-> exception, depth |-> depth, form |-> NoForm,
     widgets |-> WidgetsAfter(d, w, depth, invoice_amount, num_lines, rows)]

\* The form of lines 163-260, every widget rendered.
FormOf(d, w, today, invoice_amount, rows) ==
    [business_unit    |-> w.business_unit,
     supplier_name    |-> ValueOf(w.supplier_name, Get(d, "supplier_name", Str(<<>>)).v),
     supplier_site    |-> w.supplier_site,
     invoice_number   |-> ValueOf(w.invoice_number, Get(d, "invoice_number", Str(<<>>)).v),
     invoice_amount   |-> invoice_amount,
     invoice_date     |-> DateDefault(d, today),
     invoice_currency |-> ValueOf(w.invoice_currency, Get(d, "currency", Str(<<"USD">>)).v),
     invoice_group    |-> w.invoice_group,
     description      |-> Get(d, "description", Str(<<>>)).v,
     lines_data       |-> [i \in DOMAIN rows |->
                             [amount |-> rows[i].amount, dist_comb |-> w.dist_comb[i]]]]

\* The first row of the loop that raises.
FirstBad(rows) ==
    CHOOSE i \in DOMAIN rows :
        rows[i].error # "" /\ \A j \in 1..(i - 1) : rows[j].error = ""

\* Lines 235-260: the loop over the rows; the first row that raises ends the run.
RenderLoop(d, w, today, invoice_amount, rows) ==
    IF \E i \in DOMAIN rows : rows[i].error # ""
    THEN Raised(rows[FirstBad(rows)].error, d, w, 2, invoice_amount, Len(rows),
                FirstBad(rows) - 1)
    ELSE [exception |-> "", depth |-> 3,
          form |-> <<FormOf(d, w, today, invoice_amount, rows)>>,
          widgets |-> WidgetsAfter(d, w, 3, invoice_amount, Len(rows), Len(rows))]

\* Lines 228-233: "Number of Lines", its default the number of extracted lines.
RenderNumLines(d, w, today, invoice_amount, extracted_lines, lines_widget) ==
    IF ~lines_widget.ok
    THEN Raised("StreamlitAPIException", d, w, 1, invoice_amount, 0, 0)
    ELSE RenderLoop(d, w, today, invoice_amount,
                    [i \in 1..lines_widget.val |-> Row(extracted_lines, i)])

\* Lines 224-226: extracted_lines, from the amount the header widget shows.
RenderLines(d, w, today, invoice_amount, extracted_lines) ==
    RenderNumLines(d, w, today, invoice_amount, extracted_lines,
                   number_input(w.num_lines, Len(extracted_lines),
                                MinNumLines, TRUE, MaxNumLines))

\* Lines 183-188: "Invoice Amount *", its default float(...) of the candidate's.
RenderAmount(d, w, today, amount_widget) ==
    IF ~amount_widget.ok
    THEN Raised("StreamlitAPIException", d, w, 0, 0, 0, 0)
    ELSE RenderLines(d, w, today, amount_widget.val,
                     ExtractedLines(d, amount_widget.val))

RenderHeader(d, w, today, amount_default) ==
    IF ~amount_default.ok
    THEN Raised("ValueError", d, w, 0, 0, 0, 0)
    ELSE RenderAmount(d, w, today, amount_input(w.invoice_amount, amount_default.val))

(***************************************************************************)
(* One rendering of stage 3 (lines 154-260) from extracted_data d and the  *)
(* held widget values w.  form is the form of a run that got to the submit *)
(* button (<<>> otherwise); widgets is what the framework holds after.     *)
(***************************************************************************)
RenderForm(d, w, today) ==
    RenderHeader(d, w, today, float(Get(d, "invoice_amount", Num(0))))

\* ----------------------------------------------------- stage 4: the submit

\* What st.success, st.error and st.json put on the page.
Msg(level, text) == [level |-> level, text |-> text, status |-> 0, body |-> ""]

MsgRequired == Msg("error", "Please fill in all required fields marked with *")

MsgAmount == Msg("error", "Invoice amount must be greater than 0")

MsgSum == Msg("error", "Sum of line amounts must equal invoice amount")

MsgDist == Msg("error", "All lines must have distribution combinations")

MsgPayload == Msg("json", "Review API Payload")

MsgCreated == Msg("success", "Invoice created successfully in Oracle Fusion!")

MsgResponseJson(body) == [Msg("json", "response.json()") EXCEPT !.body = body]

MsgStatus(status) == [Msg("error", "Error creating invoice") EXCEPT !.status = status]

MsgResponseText(body) == [Msg("error", "Response") EXCEPT !.body = body]

MsgNetwork(error) == [Msg("error", "Network error") EXCEPT !.body = error]

MsgUnexpected(error) == [Msg("error", "Unexpected error") EXCEPT !.body = error]

\* required_fields: the six fields and the credentials of the auth method.
RequiredFields(form, sb) ==
    <<form.business_unit, form.supplier_name, form.supplier_site,
      form.invoice_number, sb.fusion_url, form.invoice_currency>>
      \o (IF sb.auth_method = "Basic Auth"
          THEN <<sb.username, sb.password>>
          ELSE <<sb.access_token>>)

\* all(xs) of strings: none is empty.
All(xs) == \A i \in DOMAIN xs : xs[i] # <<>>

LineAmounts(form) == [i \in DOMAIN form.lines_data |-> form.lines_data[i].amount]

LineDists(form) == [i \in DOMAIN form.lines_data |-> form.lines_data[i].dist_comb]

\* Validate with the checks on the lines in the other order.
ValidateDistFirst(form, sb) ==
    IF ~All(RequiredFields(form, sb)) THEN <<MsgRequired>>
    ELSE IF form.invoice_amount <= 0 THEN <<MsgAmount>>
    ELSE IF ~All(LineDists(form)) THEN <<MsgDist>>
    ELSE IF Abs(Sum(LineAmounts(form)) - form.invoice_amount) > Tolerance
         THEN <<MsgSum>>
    ELSE <<>>

\* Validate with all(...) replaced by any(...) in the last check.
ValidateAnyDist(form, sb) ==
    IF ~All(RequiredFields(form, sb)) THEN <<MsgRequired>>
    ELSE IF form.invoice_amount <= 0 THEN <<MsgAmount>>
    ELSE IF Abs(Sum(LineAmounts(form)) - form.invoice_amount) > Tolerance
         THEN <<MsgSum>>
    ELSE IF \A i \in DOMAIN form.lines_data : form.lines_data[i].dist_comb = <<>>
         THEN <<MsgDist>>
    ELSE <<>>

\* The if/elif chain of lines 277-284: the message of the first check that
\* fails, or <<>> when the else branch is taken.
Validate(form, sb) ==
    IF ~All(RequiredFields(form, sb)) THEN <<MsgRequired>>
    ELSE IF form.invoice_amount <= 0 THEN <<MsgAmount>>
    ELSE IF Abs(Sum(LineAmounts(form)) - form.invoice_amount) > Tolerance
         THEN <<MsgSum>>
    ELSE IF ~All(LineDists(form)) THEN <<MsgDist>>
    ELSE <<>>

\* InvoiceLines numbered by enumerate's index, from 0.
InvoiceLinesFromZero(form) ==
    [idx \in DOMAIN form.lines_data |->
        [LineNumber              |-> idx - 1,
         LineAmount              |-> form.lines_data[idx].amount,
         AccountingDate          |-> strftime(form.invoice_date),
         DistributionCombination |-> form.lines_data[idx].dist_comb]]

\* invoice_lines of lines 295-303.
InvoiceLines(form) ==
    [idx \in DOMAIN form.lines_data |->
        [LineNumber              |-> idx,
         LineAmount              |-> form.lines_data[idx].amount,
         AccountingDate          |-> strftime(form.invoice_date),
         DistributionCombination |-> form.lines_data[idx].dist_comb]]

\* payload of lines 305-316.
BuildPayload(form) ==
    [InvoiceNumber   |-> form.invoice_number,
     InvoiceCurrency |-> form.invoice_currency,
     InvoiceAmount   |-> form.invoice_amount,
     InvoiceDate     |-> strftime(form.invoice_date),
     BusinessUnit    |-> form.business_unit,
     Supplier        |-> form.supplier_name,
     SupplierSite    |-> form.supplier_site,
     InvoiceGroup    |-> form.invoice_group,
     Description     |-> form.description,
     invoiceLines    |-> InvoiceLines(form)]

\* The Authorization header; base64 is kept as a marked wrapping.
AuthHeader(sb) ==
    IF sb.auth_method = "Basic Auth"
    THEN <<"Basic ", "base64(">> \o sb.username \o <<":">> \o sb.password \o <<")">>
    ELSE <<"Bearer ">> \o sb.access_token

\* s.rstrip('/')
RECURSIVE RStripSlash(_)
RStripSlash(s) ==
    IF s # <<>> /\ s[Len(s)] = "/" THEN RStripSlash(SubSeq(s, 1, Len(s) - 1)) ELSE s

ApiEndpoint(sb) ==
    RStripSlash(sb.fusion_url) \o <<"/fscmRestApi/resources/11.13.18.05/invoices">>

\* The bodies an ERP response can carry; response.json() parses the first.
JsonBodies == {"{\"InvoiceId\": 1}"}

ResponseBodies == JsonBodies \cup {"", "<html>Service Unavailable</html>"}

(***************************************************************************)
(* What requests.post can do: raise a RequestException (timeout,           *)
(* connection error) or return a response.  json_error says which except   *)
(* clause catches the error of response.json() on a body that is not JSON: *)
(* the exception is a RequestException in requests 2.27 and later, and a   *)
(* plain ValueError before.  It matters only where the code calls          *)
(* response.json(): for a 200 or 201 whose body is not JSON.               *)
(***************************************************************************)
ErpResponses ==
    {[k |-> "raise", status |-> 0, text |-> "ReadTimeout", json_error |-> "network"]}
      \cup {[k |-> "response", status |-> st, text |-> b, json_error |-> "network"] :
              st \in {200, 201, 400, 500}, b \in ResponseBodies}
      \cup {[k |-> "response", status |-> st, text |-> b, json_error |-> "unexpected"] :
              st \in {200, 201}, b \in ResponseBodies \ JsonBodies}

\* Post with one retry.
PostWithRetry(sb, payload) ==
    [i \in 1..2 |->
        [endpoint |-> ApiEndpoint(sb), authorization |-> AuthHeader(sb),
         json |-> payload, timeout |-> 30]]

\* The POSTs that requests.post(...) of lines 330-335 issues: one.
Post(sb, payload) ==
    <<[endpoint |-> ApiEndpoint(sb), authorization |-> AuthHeader(sb),
       json |-> payload, timeout |-> 30]>>

\* Lines 337-347: what the page shows for the outcome of the POST.
ResponseMessages(erp) ==
    IF erp.k = "raise" THEN <<MsgNetwork(erp.text)>>
    ELSE IF erp.status \in {200, 201}
         THEN IF erp.text \in JsonBodies
              THEN <<MsgCreated, MsgResponseJson(erp.text)>>
              ELSE <<MsgCreated,
                     IF erp.json_error = "network"
                     THEN MsgNetwork("JSONDecodeError")
                     ELSE MsgUnexpected("JSONDecodeError")>>
         ELSE <<MsgStatus(erp.status), MsgResponseText(erp.text)>>

\* The handler of "Create Invoice in Oracle" (lines 265-347); response is
\* what the ERP answered to the POST, when there was one.
Submit(form, sb, erp) ==
    IF Validate(form, sb) # <<>>
    THEN [messages |-> Validate(form, sb), payload |-> <<>>, requests |-> <<>>,
          response |-> <<>>]
    ELSE [messages |-> <<MsgPayload>> \o ResponseMessages(erp),
          payload  |-> <<BuildPayload(form)>>,
          requests |-> Post(sb, BuildPayload(form)),
          response |-> <<erp>>]

\* ---------------------------------------------------------------- the state

VARIABLES
    ocr_result,       \* st.session_state["ocr_result"]
    extracted_data,   \* st.session_state["extracted_data"]
    pdf_processed,    \* st.session_state["pdf_processed"]
    sidebar,          \* the sidebar widgets' values
    widgets,          \* the form widgets' values
    page,             \* what the last run of the script put on the page
    ocr_done,         \* history: an OCR step has succeeded in this session
    extract_done      \* history: an extraction step has succeeded

vars ==
    <<ocr_result, extracted_data, pdf_processed, sidebar, widgets, page,
      ocr_done, extract_done>>

\* The date datetime.now().date() returns in the model.
Todays == {[y |-> 2026, m |-> 11, d |-> 1]}

MsgOcrOk == Msg("success", "PDF processed successfully!")

MsgOcrError == Msg("error", "Error processing PDF")

MsgExtractOk == Msg("success", "Invoice data extracted successfully!")

MsgNoJson == Msg("error", "Could not parse extracted data")

MsgExtractError == Msg("error", "Error extracting data")

\* The session state and the page of a new session (lines 19-25).
Session0 ==
    [ocr_result     |-> None,
     extracted_data |-> EmptyDict,
     pdf_processed  |-> FALSE,
     sidebar        |-> SidebarInit,
     widgets        |-> FormWidgetsInit,
     page           |-> [button |-> "", messages |-> <<>>, stage2 |-> FALSE,
                         stage3 |-> FALSE, exception |-> "", depth |-> 0,
                         form |-> NoForm, payload |-> <<>>, requests |-> <<>>,
                         response |-> <<>>],
     ocr_done       |-> FALSE,
     extract_done   |-> FALSE]

\* Lines 56-90: the handler of "Extract Invoice Data", from session state s.
Stage1(s, ocr_response) ==
    LET result_text == ResultText(PagesOf(ocr_response))
    IN  IF ocr_response.k = "raise" \/ ~result_text.ok
        THEN [ocr_result |-> s.ocr_result, pdf_processed |-> s.pdf_processed,
              messages |-> <<MsgOcrError>>]
        ELSE [ocr_result |-> result_text.val, pdf_processed |-> TRUE,
              messages |-> <<MsgOcrOk>>]

\* The gate left out: stage 2 is rendered in every run.
GateOpen(processed, result) == TRUE

\* Line 93: pdf_processed and ocr_result (None and "" are falsy).
Stage2Gate(processed, result) == processed /\ result # None /\ result # <<>>

\* Stage2 with the candidate reset before the call, not replaced after it.
Stage2ResetFirst(s, chat_reply) ==
    IF chat_reply.k = "content" /\ re_search(chat_reply.content).found
       /\ json_loads(re_search(chat_reply.content).group).ok
    THEN [extracted_data |-> json_loads(re_search(chat_reply.content).group).val,
          messages |-> <<MsgExtractOk>>]
    ELSE [extracted_data |-> EmptyDict,
          messages |-> <<IF chat_reply.k = "content"
                            /\ ~re_search(chat_reply.content).found
                         THEN MsgNoJson ELSE MsgExtractError>>]

\* Lines 103-151: the handler of "Auto-Extract Invoice Data".
Stage2(s, chat_reply) ==
    LET json_match == re_search(chat_reply.content)
        parsed     == json_loads(json_match.group)
    IN  IF chat_reply.k = "raise"
        THEN [extracted_data |-> s.extracted_data, messages |-> <<MsgExtractError>>]
        ELSE IF ~json_match.found
        THEN [extracted_data |-> s.extracted_data, messages |-> <<MsgNoJson>>]
        ELSE IF ~parsed.ok
        THEN [extracted_data |-> s.extracted_data, messages |-> <<MsgExtractError>>]
        ELSE [extracted_data |-> parsed.val, messages |-> <<MsgExtractOk>>]

\* The widgets whose default comes from extracted_data are new widgets when
\* it changes: the framework starts them from their new defaults.
Redefault(w) ==
    [w EXCEPT !.supplier_name = <<>>, !.invoice_number = <<>>,
              !.invoice_amount = <<>>, !.invoice_currency = <<>>,
              !.num_lines = <<>>]

\* The state a run leaves, from the outcomes of its four stages.
AfterRun(s, button, sb, s1, gate, s2, shown, s3, s4) ==
    [ocr_result     |-> s1.ocr_result,
     extracted_data |-> s2.extracted_data,
     pdf_processed  |-> s1.pdf_processed,
     sidebar        |-> sb,
     widgets        |-> s3.widgets,
     page           |-> [button    |-> button,
                         messages  |-> s1.messages \o s2.messages \o s4.messages,
                         stage2    |-> gate,
                         stage3    |-> shown,
                         exception |-> s3.exception,
                         depth     |-> s3.depth,
                         form      |-> s3.form,
                         payload   |-> s4.payload,
                         requests  |-> s4.requests,
                         response  |-> s4.response],
     ocr_done       |-> (s.ocr_done \/ (button = "ocr" /\ s1.messages = <<MsgOcrOk>>)),
     extract_done   |-> (s.extract_done
                           \/ (button = "extract" /\ s2.messages = <<MsgExtractOk>>))]

Stage3(shown, d, w, today) ==
    IF shown THEN RenderForm(d, w, today)
    ELSE [exception |-> "", depth |-> 0, form |-> NoForm, widgets |-> FormWidgetsInit]

Stage4(button, s3, sb, erp) ==
    IF s3.depth = 3 /\ button = "submit" THEN Submit(s3.form[1], sb, erp)
    ELSE [messages |-> <<>>, payload |-> <<>>, requests |-> <<>>, response |-> <<>>]

RunFrom3(s, button, sb, s1, gate, s2, shown, s3, erp) ==
    AfterRun(s, button, sb, s1, gate, s2, shown, s3, Stage4(button, s3, sb, erp))

RunFrom2(s, button, sb, w, s1, gate, s2, erp, today) ==
    RunFrom3(s, button, sb, s1, gate, s2, gate /\ DictTruthy(s2.extracted_data),
             Stage3(gate /\ DictTruthy(s2.extracted_data), s2.extracted_data,
                    IF s2.extracted_data # s.extracted_data THEN Redefault(w) ELSE w,
                    today),
             erp)

RunFrom1(s, button, sb, w, s1, chat_reply, erp, today) ==
    RunFrom2(s, button, sb, w, s1, Stage2Gate(s1.pdf_processed, s1.ocr_result),
             IF Stage2Gate(s1.pdf_processed, s1.ocr_result) /\ button = "extract"
             THEN Stage2(s, chat_reply)
             ELSE [extracted_data |-> s.extracted_data, messages |-> <<>>],
             erp, today)

(***************************************************************************)
(* One run of the script from state s, top to bottom.  button is the       *)
(* button whose click started it ("" for a run that an edit of a widget    *)
(* started); sb and w are the widgets' values at its start; the rest are   *)
(* what the outside world answers.                                         *)
(***************************************************************************)
Run(s, button, sb, w, ocr_response, chat_reply, erp, today) ==
    RunFrom1(s, button, sb, w,
             IF button = "ocr" THEN Stage1(s, ocr_response)
             ELSE [ocr_result |-> s.ocr_result, pdf_processed |-> s.pdf_processed,
                   messages |-> <<>>],
             chat_reply, erp, today)

\* The current state, as a record.
Now ==
    [ocr_result |-> ocr_result, extracted_data |-> extracted_data,
     pdf_processed |-> pdf_processed, sidebar |-> sidebar, widgets |-> widgets,
     page |-> page, ocr_done |-> ocr_done, extract_done |-> extract_done]

\* The variables are those of record s.
Is(s) ==
    /\ ocr_result = s.ocr_result
    /\ extracted_data = s.extracted_data
    /\ pdf_processed = s.pdf_processed
    /\ sidebar = s.sidebar
    /\ widgets = s.widgets
    /\ page = s.page
    /\ ocr_done = s.ocr_done
    /\ extract_done = s.extract_done

\* The next state is record s.
Becomes(s) ==
    /\ ocr_result' = s.ocr_result
    /\ extracted_data' = s.extracted_data
    /\ pdf_processed' = s.pdf_processed
    /\ sidebar' = s.sidebar
    /\ widgets' = s.widgets
    /\ page' = s.page
    /\ ocr_done' = s.ocr_done
    /\ extract_done' = s.extract_done

Init == Is(Session0)

\* Inputs of the stages that a run does not enter.
NoOcr == [k |-> "raise", pages |-> <<>>]

NoReply == [k |-> "raise", content |-> <<>>]

NoErp == [k |-> "raise", status |-> 0, text |-> "", json_error |-> "network"]

\* The script runs once, started by button, and the state becomes what it leaves.
Script(button, sb, w, ocr_response, chat_reply, erp, today) ==
    \E s \in {Run(Now, button, sb, w, ocr_response, chat_reply, erp, today)} :
        Becomes(s)

\* ------------------------------------------------------------- the actions

\* The user clicks "Extract Invoice Data": the button is there when a file
\* is uploaded and the Mistral key is entered (line 53).
ClickExtractInvoiceData ==
    \E uploaded_file \in {<<>>, <<"invoice.pdf">>},
       mistral_api_key \in {<<>>, <<"key">>},
       ocr_response \in OcrResponses, today \in Todays :
        /\ uploaded_file # <<>> /\ mistral_api_key # <<>>
        /\ Script("ocr", sidebar, widgets, ocr_response, NoReply, NoErp, today)

\* The user clicks "Auto-Extract Invoice Data", which the last run rendered.
ClickAutoExtract ==
    \E chat_reply \in ChatReplies, today \in Todays :
        /\ page.stage2
        /\ Script("extract", sidebar, widgets, NoOcr, chat_reply, NoErp, today)

\* The user clicks "Create Invoice in Oracle", which the last run rendered.
ClickCreateInvoice ==
    \E erp \in ErpResponses, today \in Todays :
        /\ page.depth = 3
        /\ Script("submit", sidebar, widgets, NoOcr, NoReply, erp, today)

\* The text widgets that the submit handler requires.
TextWidgets ==
    {"username", "password", "access_token", "fusion_url", "business_unit",
     "supplier_name", "supplier_site", "invoice_number", "invoice_currency"}

\* What the user types into text widget f, or leaves there.
Typed(f, blank, shown) ==
    IF f = blank THEN <<>> ELSE IF shown # <<>> THEN shown ELSE <<f>>

\* The sidebar after the user picked auth and filled it in, but for blank.
\* The credential widgets of the other auth method are not rendered.
SidebarTyped(auth, blank) ==
    [auth_method  |-> auth,
     username     |-> IF auth = "Basic Auth" THEN Typed("username", blank, <<>>) ELSE <<>>,
     password     |-> IF auth = "Basic Auth" THEN Typed("password", blank, <<>>) ELSE <<>>,
     access_token |-> IF auth = "OAuth2" THEN Typed("access_token", blank, <<>>) ELSE <<>>,
     fusion_url   |-> Typed("fusion_url", blank, <<"https://erp.example.com", "/">>)]

\* The form's text widgets after the user filled them in, but for blank; a
\* field that shows a value from the candidate keeps it.
TextsTyped(w, form, blank) ==
    [w EXCEPT
       !.business_unit = Typed("business_unit", blank, <<>>),
       !.supplier_site = Typed("supplier_site", blank, <<>>),
       !.supplier_name = <<Typed("supplier_name", blank, form.supplier_name)>>,
       !.invoice_number = <<Typed("invoice_number", blank, form.invoice_number)>>,
       !.invoice_currency = <<Typed("invoice_currency", blank, form.invoice_currency)>>]

\* A distribution combination the user types into row i.
DistCode(i) == <<"101.10.", DigitChar(i % 10)>>

\* The rows' distribution widgets after the user filled them in, but for row skip.
DistsTyped(w, form, skip) ==
    [w EXCEPT !.dist_comb =
        [i \in 1..MaxNumLines |->
            IF i <= Len(form.lines_data) /\ i # skip THEN DistCode(i) ELSE <<>>]]

\* The amount the rows on screen add up to (for the synthetic line, which
\* follows the header amount, the candidate's amount).
RowsTotal(d, form) ==
    IF Truthy(Get(d, "line_items", List(<<>>)))
    THEN Sum(LineAmounts(form))
    ELSE float(Get(d, "invoice_amount", Num(0))).val

\* The fields that the user can leave empty under auth method auth: the
\* credentials of the other method are not on the page.
Blanks(auth) ==
    IF auth = "Basic Auth" THEN (TextWidgets \ {"access_token"}) \cup {"none"}
    ELSE {"access_token", "none"}

(***************************************************************************)
(* The user picks the auth method and fills in the sidebar and the text    *)
(* fields of the form, leaving at most one of them (blank) empty.          *)
(***************************************************************************)
FillIn ==
    \E auth \in {"Basic Auth", "OAuth2"}, blank \in TextWidgets \cup {"none"},
       today \in Todays :
        /\ page.depth = 3
        /\ blank \in Blanks(auth)
        /\ Script("", SidebarTyped(auth, blank),
                  TextsTyped(widgets, page.form[1], blank),
                  NoOcr, NoReply, NoErp, today)

\* The user types an invoice amount: the candidate's amount, that amount
\* plus the tolerance, or one unit more.
EditInvoiceAmount ==
    \E delta \in {0, Tolerance, Tolerance + 1}, today \in Todays :
        /\ page.depth = 3
        /\ Script("", sidebar,
                  [widgets EXCEPT !.invoice_amount =
                      <<float(Get(extracted_data, "invoice_amount", Num(0))).val + delta>>],
                  NoOcr, NoReply, NoErp, today)

\* The user sets "Number of Lines" (the widget keeps it within 1..10) to
\* one line, to the candidate's count, or to one more than the candidate's.
EditNumLines ==
    \E n \in MinNumLines..MaxNumLines, today \in Todays :
        /\ page.depth >= 2
        /\ n \in {MinNumLines, Len(ExtractedLines(extracted_data, 0)),
                  Len(ExtractedLines(extracted_data, 0)) + 1}
        /\ Script("", sidebar, [widgets EXCEPT !.num_lines = <<n>>],
                  NoOcr, NoReply, NoErp, today)

\* The user fills in the distribution combinations of the rows on screen,
\* all of them or all but the last.
EditDistributions ==
    \E skip \in 0..MaxNumLines, today \in Todays :
        /\ page.depth = 3
        /\ skip \in {0, Len(page.form[1].lines_data)}
        /\ Script("", sidebar, DistsTyped(widgets, page.form[1], skip),
                  NoOcr, NoReply, NoErp, today)

\* The user fills in the whole form so that it can pass: every text, every
\* distribution combination, and the rows' total as the invoice amount.
CompleteForm ==
    \E auth \in {"Basic Auth", "OAuth2"}, today \in Todays :
        /\ page.depth = 3
        /\ Script("", SidebarTyped(auth, "none"),
                  [DistsTyped(TextsTyped(widgets, page.form[1], "none"),
                              page.form[1], 0)
                     EXCEPT !.invoice_amount =
                        <<RowsTotal(extracted_data, page.form[1])>>],
                  NoOcr, NoReply, NoErp, today)

(***************************************************************************)
(* Spec: the session.  The three buttons, with a form that the user either *)
(* leaves as rendered or completes.                                        *)
(***************************************************************************)
Next ==
    \/ ClickExtractInvoiceData
    \/ ClickAutoExtract
    \/ ClickCreateInvoice
    \/ CompleteForm

Spec == Init /\ [][Next]_vars

(***************************************************************************)
(* FormSpec: the form.  It starts where a session is after a successful    *)
(* OCR and the extraction of one of the candidates (two runs of the script *)
(* from the initial state), and the user edits the form widget by widget   *)
(* and submits.  The user leaves the rows' amounts at their defaults: the  *)
(* header amount and the number of lines are what make the sum differ.     *)
(***************************************************************************)
AfterOcr ==
    Run(Session0, "ocr", SidebarInit, FormWidgetsInit,
        [k |-> "object", pages |-> <<GoodPage>>], NoReply, NoErp,
        CHOOSE t \in Todays : TRUE)

AfterExtraction(c, today) ==
    Run(AfterOcr, "extract", SidebarInit, FormWidgetsInit, NoOcr,
        [k |-> "content", content |-> <<"{", c, "}">>], NoErp, today)

\* The candidates whose forms FormSpec edits: they differ in the rows the
\* form shows (two, the synthetic one, ten, none) and in its date.
FormCandidates ==
    {"base", "lines_missing", "lines_max", "lines_over", "line_amount_bad",
     "date_missing"}

FormInit == \E c \in FormCandidates, today \in Todays : Is(AfterExtraction(c, today))

FormNext ==
    \/ FillIn
    \/ EditInvoiceAmount
    \/ EditNumLines
    \/ EditDistributions
    \/ ClickCreateInvoice

FormSpec == FormInit /\ [][FormNext]_vars

\* ------------------------------------------------------------- the claims
\* The rules of the submit handler, stated on the form and the sidebar of
\* the run that the page shows.

\* Rule 1: the required fields and the credentials of the auth method.
Rule1(f, sb) ==
    /\ f.business_unit # <<>> /\ f.supplier_name # <<>> /\ f.supplier_site # <<>>
    /\ f.invoice_number # <<>> /\ f.invoice_currency # <<>>
    /\ sb.fusion_url # <<>>
    /\ sb.auth_method = "Basic Auth" => sb.username # <<>> /\ sb.password # <<>>
    /\ sb.auth_method # "Basic Auth" => sb.access_token # <<>>

\* Rule 2: invoice_amount > 0.
Rule2(f) == f.invoice_amount > 0

\* Rule 3: |sum of line amounts - invoice_amount| <= 1e-6.
Rule3(f) ==
    LET total == Sum([i \in DOMAIN f.lines_data |-> f.lines_data[i].amount])
    IN  /\ total - f.invoice_amount <= Tolerance
        /\ f.invoice_amount - total <= Tolerance

\* Rule 4: every line has a distribution combination.
Rule4(f) == \A i \in DOMAIN f.lines_data : f.lines_data[i].dist_comb # <<>>

\* The page is that of a run of the submit handler.
Submitted == page.button = "submit" /\ page.form # NoForm

\* C1: on every submit the page reports the lowest-numbered violated rule,
\* that message is the only one, and nothing is built or posted.
C1_FirstFailureOnly ==
    Submitted =>
        LET f == page.form[1]
        IN  /\ ~Rule1(f, sidebar) => page.messages = <<MsgRequired>>
            /\ Rule1(f, sidebar) /\ ~Rule2(f) => page.messages = <<MsgAmount>>
            /\ Rule1(f, sidebar) /\ Rule2(f) /\ ~Rule3(f) => page.messages = <<MsgSum>>
            /\ Rule1(f, sidebar) /\ Rule2(f) /\ Rule3(f) /\ ~Rule4(f)
                 => page.messages = <<MsgDist>>
            /\ ~(Rule1(f, sidebar) /\ Rule2(f) /\ Rule3(f) /\ Rule4(f))
                 => page.payload = <<>> /\ page.requests = <<>>

\* C1's case: a submitted form that violates rules 3 and 4 at once.
C1_Witness ==
    /\ Submitted
    /\ Rule1(page.form[1], sidebar) /\ ~Rule3(page.form[1]) /\ ~Rule4(page.form[1])
    /\ page.messages = <<MsgSum>>

\* C2 as stated: a form with an empty distribution combination always gets
\* rule 4's failure, and no payload and no POST.
C2_AsStated ==
    Submitted /\ ~Rule4(page.form[1]) =>
        /\ page.messages = <<MsgDist>>
        /\ page.payload = <<>> /\ page.requests = <<>>

\* C2: a form with an empty distribution combination never gets a payload
\* or a POST; the page reports one validation failure, and it is rule 4's
\* exactly when rules 1 to 3 pass.
C2_NoPayloadOnEmptyDist ==
    Submitted /\ ~Rule4(page.form[1]) =>
        /\ page.payload = <<>> /\ page.requests = <<>>
        /\ page.messages \in {<<MsgRequired>>, <<MsgAmount>>, <<MsgSum>>, <<MsgDist>>}
        /\ page.messages = <<MsgDist>>
             <=> Rule1(page.form[1], sidebar) /\ Rule2(page.form[1]) /\ Rule3(page.form[1])

\* C2's case: only the last row's distribution combination is empty, and
\* the amounts add up.
C2_Witness ==
    /\ Submitted
    /\ Len(page.form[1].lines_data) > 1
    /\ page.form[1].lines_data[1].dist_comb # <<>>
    /\ ~Rule4(page.form[1]) /\ Rule3(page.form[1]) /\ Rule1(page.form[1], sidebar)
    /\ page.messages = <<MsgDist>>

\* C3: a run posts only in the submit handler, once when the four rules
\* pass and never otherwise, whatever the ERP answers.
C3_AtMostOnePost ==
    /\ page.button # "submit" => page.requests = <<>>
    /\ Submitted =>
         Len(page.requests) =
            IF /\ Rule1(page.form[1], sidebar) /\ Rule2(page.form[1])
               /\ Rule3(page.form[1]) /\ Rule4(page.form[1])
            THEN 1 ELSE 0
    /\ Len(page.response) = Len(page.requests)

\* C3's case: the ERP answered the one POST with a 500.
C3_Witness ==
    /\ Submitted /\ Len(page.requests) = 1
    /\ page.response[1].k = "response" /\ page.response[1].status = 500

\* C4 as stated: every answer of the ERP ends in one outcome: success with
\* the body for 200 and 201, the status and the body for another status, a
\* network error for a failed transport.
C4_OneOutcomePerResponse ==
    page.response # <<>> =>
        LET r == page.response[1]
        IN  page.messages =
              <<MsgPayload>> \o
                (IF r.k = "raise" THEN <<MsgNetwork(r.text)>>
                 ELSE IF r.status \in {200, 201}
                      THEN <<MsgCreated, MsgResponseJson(r.text)>>
                      ELSE <<MsgStatus(r.status), MsgResponseText(r.text)>>)

\* C5: the payload's lines are the form's rows in order, numbered from 1,
\* each with its row's amount and distribution combination and with the
\* header's date as YYYY-MM-DD.
C5_LinesFollowRows ==
    page.payload # <<>> =>
        LET f == page.form[1]
            p == page.payload[1]
        IN  /\ Len(p.invoiceLines) = Len(f.lines_data)
            /\ Len(f.lines_data) \in MinNumLines..MaxNumLines
            /\ Len(p.InvoiceDate) = 10
            /\ strptime(p.InvoiceDate) = [ok |-> TRUE, date |-> f.invoice_date]
            /\ \A i \in DOMAIN p.invoiceLines :
                 /\ p.invoiceLines[i].LineNumber = i
                 /\ p.invoiceLines[i].LineAmount = f.lines_data[i].amount
                 /\ p.invoiceLines[i].DistributionCombination = f.lines_data[i].dist_comb
                 /\ p.invoiceLines[i].AccountingDate = p.InvoiceDate

\* C5's case: a payload of ten lines.
C5_Witness ==
    /\ page.payload # <<>>
    /\ Len(page.payload[1].invoiceLines) = MaxNumLines
    /\ page.payload[1].invoiceLines[MaxNumLines].LineNumber = MaxNumLines

\* The run that ends in the next state reported a failed OCR step.
OcrFailed == page'.button = "ocr" /\ page'.messages # <<MsgOcrOk>>

\* The run that ends in the next state reported a failed extraction step.
ExtractFailed == page'.button = "extract" /\ page'.messages # <<MsgExtractOk>>

\* C6: a failed step leaves the session state as it was, and ocr_result
\* and extracted_data change only in a successful run of their own step.
C6_FailureKeepsState ==
    [][/\ OcrFailed => ocr_result' = ocr_result /\ pdf_processed' = pdf_processed
       /\ ExtractFailed => extracted_data' = extracted_data
       /\ ocr_result' # ocr_result \/ pdf_processed' # pdf_processed
            => page'.button = "ocr" /\ page'.messages = <<MsgOcrOk>>
       /\ extracted_data' # extracted_data
            => page'.button = "extract" /\ page'.messages = <<MsgExtractOk>>]_vars

\* C6's case: an extraction failed for want of a "{...}" span while a
\* candidate from an earlier extraction was held.
C6_Witness ==
    /\ page.button = "extract" /\ page.messages = <<MsgNoJson>>
    /\ DictTruthy(extracted_data)

\* C7: the extraction button is on the page only after a successful OCR,
\* the form only after a successful extraction that left a candidate, and
\* a POST is issued only in a session where both have succeeded.
C7_LinearWorkflow ==
    /\ page.stage2 => ocr_done
    /\ page.button = "extract" => ocr_done
    /\ page.stage3 => ocr_done /\ extract_done /\ DictTruthy(extracted_data)
    /\ page.button = "submit" => ocr_done /\ extract_done
    /\ page.requests # <<>> => ocr_done /\ extract_done

\* C7's case: a POST was issued.
C7_Witness == page.requests # <<>> /\ ocr_done /\ extract_done

\* C8 as stated: after an OCR step that succeeded with the empty text, the
\* extraction button is on the page.
C8_EmptyTextTolerated ==
    page.button = "ocr" /\ page.messages = <<MsgOcrOk>> /\ ocr_result = <<>>
        => page.stage2

\* The candidate has no more line items than the form has rows for.
FewLines(d) == Len(Get(d, "line_items", List(<<>>)).v) <= MaxNumLines

\* The candidate carries a header amount and an amount on every line.
HasAmounts(d) ==
    /\ d.invoice_amount # Absent
    /\ \A i \in DOMAIN Get(d, "line_items", List(<<>>)).v :
         Get(d, "line_items", List(<<>>)).v[i].amount # Absent

\* C9 as stated: whatever the values of the candidate's amounts and date
\* are, the form is produced and no exception is shown.
C9_MalformedNeverRaises ==
    /\ page.stage3 /\ page.button = "extract"
    /\ FewLines(extracted_data) /\ HasAmounts(extracted_data)
    => page.exception = "" /\ page.form # NoForm

\* The number n clamped to lo..hi.
Clamp(n, lo, hi) == IF n < lo THEN lo ELSE IF n > hi THEN hi ELSE n

\* The amounts of the candidate are numbers of at least 0.01.
PlainAmounts(d) ==
    /\ d.invoice_amount.k = "num" /\ d.invoice_amount.n >= MinAmount
    /\ \A i \in DOMAIN Get(d, "line_items", List(<<>>)).v :
         /\ Get(d, "line_items", List(<<>>)).v[i].amount.k = "num"
         /\ Get(d, "line_items", List(<<>>)).v[i].amount.n >= MinAmount

\* C10 as stated: the form that a new candidate gets has len(line_items)
\* rows, clamped to 1..10.
C10_RowsClamped ==
    page.stage3 /\ page.button = "extract" /\ PlainAmounts(extracted_data)
        => /\ page.form # NoForm
           /\ Len(page.form[1].lines_data)
                = Clamp(Len(Get(extracted_data, "line_items", List(<<>>)).v),
                        MinNumLines, MaxNumLines)

=============================================================================
